---- MODULE Spec2Model ----
(***************************************************************************)
(* ISIS_SRexplorer: the topology construction of main.py (node list,       *)
(* Node-SID assignment, adjacency extraction into the adjacency matrix and *)
(* the flat link list, MAC back-fill), the path query and the link pairing *)
(* of draw_edges, with the VNode / VEdge objects of graph.py.              *)
(*                                                                         *)
(* Python strings are sequences of one-character strings; Python lists are *)
(* sequences; Python list indexes are 0-based integers (-1 is the last     *)
(* element), as sys_to_idx and name_to_idx return them.                    *)
(***************************************************************************)
EXTENDS Integers, Sequences, FiniteSets, TLC

VARIABLES
    pc,             \* position of the run / of the operation under study
    exit_code,      \* process exit status; -1 while running
    nodes,          \* main: nodes, list of VNode [name, system_id, nsid]
    srgb_start,     \* main: srgb_start
    p_sids,         \* prefix-sid advertisements iterated so far, in order
    adj_martix,     \* main: adj_martix, cells hold a link id or None
    links,          \* every VEdge object created so far, by id (creation order)
    all_adjs,       \* main: all_adjs, list of link ids
    node_adjs,      \* list of link ids of the snapshot being processed
    node_id,        \* get_inf_adjs: node_id (oper-system-id of the snapshot)
    inf,            \* get_inf_adjs: the interface record of the last iteration
    net_gr,         \* main: net_gr, the edges of the graph in iteration order
    snap,           \* number of snapshots started (1 = root)
    cnt,            \* loop counter of the loop the run is in
    draw,           \* draw_edges: edge_labels, visited_adj, visited_pairs, texts
    f,              \* script arguments ('src', 'dst', 'graph')
    srgb,           \* main: srgb.data, the SRGB configuration: its keys' values
    spf,            \* path query: [called, nodes]
    str_in,         \* string handed to a string operation
    str_out         \* its result

vars == <<pc, exit_code, nodes, srgb_start, p_sids, adj_martix, links, all_adjs,
          node_adjs, node_id, inf, net_gr, snap, cnt, draw, f, srgb, spf, str_in,
          str_out>>


(***************************************************************************)
(* Python string and list primitives.                                      *)
(***************************************************************************)
\* s[i:j] with 0-based bounds clipped to the string, as Python slices.
Slice(s, i, j) ==
    LET hi == IF j > Len(s) THEN Len(s) ELSE j
    IN  IF i >= hi THEN <<>> ELSE SubSeq(s, i + 1, hi)

\* s.startswith(p)
StartsWith(s, p) == Len(s) >= Len(p) /\ SubSeq(s, 1, Len(p)) = p

\* s.replace(old, new): every non-overlapping occurrence, left to right.
RECURSIVE Replace(_, _, _)
Replace(s, old, new) ==
    IF s = <<>> THEN <<>>
    ELSE IF StartsWith(s, old)
         THEN new \o Replace(SubSeq(s, Len(old) + 1, Len(s)), old, new)
         ELSE <<Head(s)>> \o Replace(Tail(s), old, new)

\* sep.join(parts)
RECURSIVE Join(_, _)
Join(sep, parts) ==
    IF parts = <<>> THEN <<>>
    ELSE IF Len(parts) = 1 THEN parts[1]
    ELSE parts[1] \o sep \o Join(sep, Tail(parts))

\* seq[i] for a Python index i (negative indexes count from the end).
PyAt(seq, i) == IF i >= 0 THEN seq[i + 1] ELSE seq[Len(seq) + i + 1]

\* The position (1-based) a Python index denotes.
PyPos(seq, i) == IF i >= 0 THEN i + 1 ELSE Len(seq) + i + 1

(***************************************************************************)
(* get_inf_adjs, lines 145-146: normalisation of the neighbour system-id.  *)
(***************************************************************************)
ChunkLen == 4

\* [nbr_id[i:i+4] for i in range(0, len(nbr_id), 4)]
Chunks(s) ==
    [k \in 1..((Len(s) + ChunkLen - 1) \div ChunkLen) |->
        Slice(s, (k - 1) * ChunkLen, (k - 1) * ChunkLen + ChunkLen)]

NormaliseBadChunks(raw) == Join(<<".">>, Chunks(raw))

NormaliseNbrId(raw) == Join(<<".">>, Chunks(Replace(raw, <<"0", "x">>, <<>>)))

(***************************************************************************)
(* Bounds of the model and the input data drawn from them.                 *)
(***************************************************************************)
NumNodes == 2           \* entries of the hostname mapping
MaxPrefixSids == 3      \* prefix-sid advertisements iterated
MaxLabel == 1           \* label indexes are 0..MaxLabel

\* Sample values of the device data.
SrgbStarts == {100}
AdjSids == {20000, 20001}

NumFmt(k) == <<"0", "1", "2", "3", "4", "5", "6", "7", "8", "9">>[k + 1]
Letter(k) == <<"a", "b", "c", "d", "e", "f", "g", "h">>[k]
Zero4 == <<"0", "0", "0", "0">>

\* The system-id of router k in the dotted format of the hostname mapping,
\* and as the raw hex string of an adjacency's neighbor record.
SysId(k) == Zero4 \o <<".">> \o Zero4 \o <<".">> \o <<"0", "0", "0", NumFmt(k)>>
RawSysId(k) == <<"0", "x">> \o Zero4 \o Zero4 \o <<"0", "0", "0", NumFmt(k)>>

\* Router 0 is a router outside the hostname mapping (another level or area).
Routers == 0..NumNodes

(***************************************************************************)
(* graph.py: VNode.                                                        *)
(***************************************************************************)
VNode(name, system_id) == [name |-> name, system_id |-> system_id, nsid |-> 0]

(***************************************************************************)
(* main.py: sys_id_in_nodes, sys_to_idx, name_to_idx.                      *)
(***************************************************************************)
sys_id_in_nodes_always(ns, system_id) == TRUE

sys_id_in_nodes(ns, system_id) ==
    \E k \in 1..Len(ns) : ns[k].system_id = system_id

sys_to_idx(ns, system_id) ==
    IF \E k \in 1..Len(ns) : ns[k].system_id = system_id
    THEN (CHOOSE k \in 1..Len(ns) :
            /\ ns[k].system_id = system_id
            /\ \A j \in 1..(k - 1) : ns[j].system_id # system_id) - 1
    ELSE -1

\* str.strip(): surrounding whitespace removed.
RECURSIVE Strip(_)
Strip(str) ==
    IF str = <<>> THEN str
    ELSE IF Head(str) = " " THEN Strip(Tail(str))
    ELSE IF str[Len(str)] = " " THEN Strip(SubSeq(str, 1, Len(str) - 1))
    ELSE str

name_to_idx(ns, name) ==
    LET stripped == Strip(name)
    IN  IF \E k \in 1..Len(ns) : ns[k].name = stripped
        THEN (CHOOSE k \in 1..Len(ns) :
                /\ ns[k].name = stripped
                /\ \A j \in 1..(k - 1) : ns[j].name # stripped) - 1
        ELSE -1

(***************************************************************************)
(* main(), lines 353-381: node list, SRGB start, Node-SIDs, matrix.        *)
(***************************************************************************)
\* srgb.data without a 'start' key, and with one.
NoStart == <<>>
WithStart(v) == <<v>>

NoneCell == 0

\* An interface record of a snapshot: its name and its adjacency, if any.
NoInterface ==
    [inf_name |-> <<>>, has_adj |-> FALSE, oper_state |-> "down",
     system_id |-> <<>>, snpa |-> <<>>, sid |-> 0]

Idle == [edge_labels |-> <<>>, visited_adj |-> <<>>, visited_pairs |-> <<>>,
         texts |-> <<>>, raised |-> FALSE]
\* A command-line name: not given (None), or the string given.
NoName == <<>>
Name(str) == <<str>>
NoArgs == [src |-> NoName, dst |-> NoName, graph |-> FALSE]
NoSpf == [called |-> FALSE, nodes |-> <<>>]

Init ==
    /\ pc = "start"
    /\ exit_code = -1
    /\ nodes = <<>>
    /\ srgb_start = 0
    /\ p_sids = <<>>
    /\ adj_martix = <<>>
    /\ links = <<>>
    /\ all_adjs = <<>>
    /\ node_adjs = <<>>
    /\ node_id = <<>>
    /\ inf = NoInterface
    /\ net_gr = <<>>
    /\ snap = 0
    /\ cnt = 0
    /\ draw = Idle
    /\ f = NoArgs
    /\ srgb \in {NoStart} \cup {WithStart(v) : v \in SrgbStarts}
    /\ spf = NoSpf
    /\ str_in = <<>>
    /\ str_out = <<>>

\* Lines 354-357: one VNode per entry of the hostname mapping.
LoadNodes ==
    /\ pc = "start"
    /\ \E n \in 1..NumNodes :
          nodes' = [k \in 1..n |-> VNode(<<Letter(k)>>, SysId(k))]
    /\ srgb_start' = 0
    /\ pc' = "srgb"
    /\ UNCHANGED <<exit_code, p_sids, adj_martix, links, all_adjs, node_adjs,
                   node_id, inf, net_gr, snap, cnt, draw, f, srgb, spf, str_in,
                   str_out>>

\* Lines 360-364 with the missing-start branch falling through.
SrgbOutcomeNoExit(data) ==
    IF data = NoStart
    THEN [pc |-> "prefix", exit_code |-> -1, srgb_start |-> 0]
    ELSE [pc |-> "prefix", exit_code |-> -1, srgb_start |-> data[1]]

\* Lines 360-364: srgb_start from the configuration, or exit(3).
SrgbOutcome(data) ==
    IF data = NoStart
    THEN [pc |-> "exit", exit_code |-> 3, srgb_start |-> 0]
    ELSE [pc |-> "prefix", exit_code |-> -1, srgb_start |-> data[1]]

ElicitSrgb ==
    /\ pc = "srgb"
    /\ pc' = SrgbOutcome(srgb).pc
    /\ exit_code' = SrgbOutcome(srgb).exit_code
    /\ srgb_start' = SrgbOutcome(srgb).srgb_start
    /\ UNCHANGED <<nodes, p_sids, adj_martix, links, all_adjs, node_adjs,
                   node_id, inf, net_gr, snap, cnt, draw, f, srgb, spf, str_in,
                   str_out>>

PrefixSidRecords ==
    [system_id : {SysId(k) : k \in Routers}, bit_n : BOOLEAN, label : 0..MaxLabel]

\* Lines 368-373: one iteration of the prefix-sid loop.
AssignNsid(ns, d_e, start) ==
    [k \in 1..Len(ns) |->
        IF d_e.bit_n /\ ns[k].system_id = d_e.system_id
        THEN [ns[k] EXCEPT !.nsid = start + d_e.label]
        ELSE ns[k]]

PrefixSid ==
    /\ pc = "prefix"
    /\ Len(p_sids) < MaxPrefixSids
    /\ \E d_e \in PrefixSidRecords :
          /\ nodes' = AssignNsid(nodes, d_e, srgb_start)
          /\ p_sids' = Append(p_sids, d_e)
    /\ UNCHANGED <<pc, exit_code, srgb_start, adj_martix, links, all_adjs,
                   node_adjs, node_id, inf, net_gr, snap, cnt, draw, f, srgb, spf, str_in,
                   str_out>>

\* Line 381: adj_martix = [[None] * len(nodes) for _ in range(len(nodes))]
\* A cell holds the id of a VEdge object, or NoneCell.
NewMatrix(n) == [i \in 1..n |-> [j \in 1..n |-> NoneCell]]

CreateMatrix ==
    /\ pc = "prefix"
    /\ adj_martix' = NewMatrix(Len(nodes))
    /\ pc' = "adjs"
    /\ UNCHANGED <<exit_code, nodes, srgb_start, p_sids, links, all_adjs,
                   node_adjs, node_id, inf, net_gr, snap, cnt, draw, f, srgb, spf, str_in,
                   str_out>>

Next == LoadNodes \/ ElicitSrgb \/ PrefixSid \/ CreateMatrix

Spec == Init /\ [][Next]_vars

\* C2 (as claimed): after the prefix-sid loop every node's Node-SID is
\* srgb_start + label of the first N-flagged advertisement, in iteration
\* order, whose advertising system-id is the node's.
C2_FirstAdvertisementWins ==
    pc = "adjs" =>
        \A k \in 1..Len(nodes) : \A i \in 1..Len(p_sids) :
            ( /\ p_sids[i].bit_n
              /\ p_sids[i].system_id = nodes[k].system_id
              /\ \A j \in 1..(i - 1) :
                    ~(p_sids[j].bit_n /\ p_sids[j].system_id = nodes[k].system_id) )
            => nodes[k].nsid = srgb_start + p_sids[i].label

\* C8: a run whose SRGB configuration has no start value gets no further
\* than the exit with status 3: no Node-SID is assigned, no advertisement is
\* processed, the matrix is not created and no adjacency is extracted.
C8_MissingStartIsFatal ==
    srgb = NoStart =>
        /\ pc \in {"start", "srgb", "exit"}
        /\ pc = "exit" => exit_code = 3
        /\ \A k \in 1..Len(nodes) : nodes[k].nsid = 0
        /\ p_sids = <<>>
        /\ adj_martix = <<>>
        /\ links = <<>>
        /\ snap = 0

\* The run has ended with status 3 after the node list was built.
C8_Witness ==
    /\ srgb = NoStart
    /\ pc = "exit"
    /\ exit_code = 3
    /\ Len(nodes) = NumNodes

(***************************************************************************)
(* graph.py: VEdge.  inf_mac is no attribute of a new VEdge (Unset) until  *)
(* the setter has accepted a value.                                        *)
(***************************************************************************)
Unset == <<"unset">>

VEdge(v1, v2, adj_sid) ==
    [v1 |-> v1, v2 |-> v2, adj_sid |-> adj_sid, inf_name |-> <<>>,
     nei_snpa |-> <<>>, inf_mac |-> Unset]

MacLen == 14

\* VEdge.inf_mac setter with the length assertion dropped.
InfMacAcceptsAnyLength(value) == StartsWith(value, <<"0", "x">>)

\* VEdge.inf_mac setter, lines 151-153: the assertions a value must pass.
InfMacAccepts(value) ==
    /\ Len(value) = MacLen
    /\ StartsWith(value, <<"0", "x">>)

\* VEdge.inf_mac setter: the edge after e.inf_mac = value (an AssertionError
\* leaves the edge as it was).
SetInfMac(e, value) ==
    IF InfMacAccepts(value) THEN [e EXCEPT !.inf_mac = value] ELSE e

(***************************************************************************)
(* get_inf_adjs: one iteration of the loop over the interfaces.            *)
(***************************************************************************)
MaxSnapshots == 2       \* snapshots processed: the root and the configured nodes
MaxInfs == 2            \* interfaces of one snapshot
MaxLinks == 2           \* VEdge objects created in one run

MacStr(k) == <<"0", "x">> \o Zero4 \o Zero4 \o <<"0", "0", "a", NumFmt(k)>>
Snpas == {MacStr(1)}

\* Interface names are opaque to get_inf_adjs; a snapshot's interfaces are
\* named by the number of links the snapshot has produced before them.
InfName(k) == <<"i", NumFmt(k)>>

\* The adjacency sub-records a snapshot's interface may carry.
Adjacencies ==
    [inf_name : {<<>>}, has_adj : {TRUE}, oper_state : {"up"},
     system_id : {RawSysId(r) : r \in 1..NumNodes}, snpa : Snpas, sid : AdjSids]
    \cup
    [inf_name : {<<>>}, has_adj : {TRUE}, oper_state : {"up"},
     system_id : {RawSysId(0)}, snpa : Snpas, sid : {20000}]
    \cup
    [inf_name : {<<>>}, has_adj : {TRUE}, oper_state : {"down"},
     system_id : {RawSysId(1)}, snpa : Snpas, sid : {0}]
    \cup
    {NoInterface}

\* Lines 154-155 with the emptiness test dropped.
MatrixPutAlways(mtx, i, j, uid) == [mtx EXCEPT ![i][j] = uid]

\* Lines 154-155: the cell is written only while it is None.
MatrixPut(mtx, i, j, uid) ==
    IF mtx[i][j] = NoneCell THEN [mtx EXCEPT ![i][j] = uid] ELSE mtx

\* Lines 136-156: the body of the loop for one interface.  lks are the VEdge
\* objects created so far; a new one gets the next id.
InfAdj(ns, mtx, lks, adjs, nid, rec) ==
    LET same == [adj_martix |-> mtx, links |-> lks, adjs |-> adjs]
        nbr_id == NormaliseNbrId(rec.system_id)
    IN  IF ~rec.has_adj THEN same
        ELSE IF rec.oper_state # "up" THEN same
        ELSE IF ~sys_id_in_nodes(ns, nbr_id) THEN same
        ELSE LET src_node_idx == sys_to_idx(ns, nid)
                 dst_node_idx == sys_to_idx(ns, nbr_id)
                 ve == [VEdge(PyPos(ns, src_node_idx), PyPos(ns, dst_node_idx),
                              rec.sid)
                          EXCEPT !.inf_name = rec.inf_name,
                                 !.nei_snpa = rec.snpa]
                 uid == Len(lks) + 1
             IN  [adj_martix |-> MatrixPut(mtx, PyPos(ns, src_node_idx),
                                           PyPos(ns, dst_node_idx), uid),
                  links |-> Append(lks, ve),
                  adjs |-> Append(adjs, uid)]

sidVars == <<nodes, srgb_start, p_sids, srgb>>
drawVars == <<draw, f, spf>>
strVars == <<str_in, str_out>>

\* The state of main() at line 383: nodes listed, matrix created.
InitAdj ==
    /\ pc = "adjs"
    /\ exit_code = -1
    /\ nodes = [k \in 1..NumNodes |-> VNode(<<Letter(k)>>, SysId(k))]
    /\ srgb \in {WithStart(v) : v \in SrgbStarts}
    /\ srgb_start = srgb[1]
    /\ p_sids = <<>>
    /\ adj_martix = NewMatrix(NumNodes)
    /\ links = <<>>
    /\ all_adjs = <<>>
    /\ node_adjs = <<>>
    /\ node_id = <<>>
    /\ inf = NoInterface
    /\ net_gr = <<>>
    /\ snap = 0
    /\ cnt = 0
    /\ draw = Idle
    /\ f = NoArgs
    /\ spf = NoSpf
    /\ str_in = <<>>
    /\ str_out = <<>>

\* Lines 384 and 413: get_inf_adjs is entered for the next snapshot, whose
\* oper-system-id is that of any router.
BeginSnapshot ==
    /\ pc = "adjs"
    /\ snap < MaxSnapshots
    /\ \E r \in Routers : node_id' = SysId(r)
    /\ snap' = snap + 1
    /\ node_adjs' = <<>>
    /\ cnt' = 0
    /\ pc' = "inf"
    /\ UNCHANGED <<exit_code, adj_martix, links, all_adjs, inf, net_gr>>
    /\ UNCHANGED <<sidVars, drawVars, strVars>>

InfStep ==
    /\ pc = "inf"
    /\ cnt < MaxInfs
    /\ Len(links) < MaxLinks
    /\ \E a \in Adjacencies :
          LET rec == [a EXCEPT !.inf_name = InfName(Len(node_adjs) + 1)]
              r == InfAdj(nodes, adj_martix, links, node_adjs, node_id, rec)
          IN  /\ inf' = rec
              /\ adj_martix' = r.adj_martix
              /\ links' = r.links
              /\ node_adjs' = r.adjs
    /\ cnt' = cnt + 1
    /\ UNCHANGED <<pc, exit_code, all_adjs, node_id, net_gr, snap>>
    /\ UNCHANGED <<sidVars, drawVars, strVars>>

\* Line 157; at line 384 the returned list is all_adjs itself.  The locals
\* of get_inf_adjs end with the call.
AdjsReturn ==
    /\ pc = "inf"
    /\ all_adjs' = IF snap = 1 THEN node_adjs ELSE all_adjs
    /\ cnt' = 0
    /\ inf' = NoInterface
    /\ node_id' = <<>>
    /\ pc' = "mac"
    /\ UNCHANGED <<exit_code, adj_martix, links, node_adjs, net_gr, snap>>
    /\ UNCHANGED <<sidVars, drawVars, strVars>>

(***************************************************************************)
(* get_inf_mac_by_adj: the MAC of each link's port, normalised and set.    *)
(***************************************************************************)
\* str.lower() on the characters a hardware address is drawn from.
LowerChar(c) ==
    CASE c = "A" -> "a" [] c = "B" -> "b" [] c = "C" -> "c"
      [] c = "D" -> "d" [] c = "E" -> "e" [] c = "F" -> "f"
      [] c = "G" -> "g" [] c = "X" -> "x"
      [] OTHER -> c

Lower(s) == [k \in 1..Len(s) |-> LowerChar(s[k])]

\* Lines 275-276.
NormaliseMac(mac) == <<"0", "x">> \o Lower(Replace(mac, <<":">>, <<>>))

\* hardware-mac-address values of the ports: well-formed ones, and one
\* of five octets only.
HwMac(k) ==
    <<"0", "0", ":", "0", "0", ":", "0", "0", ":", "0", "0", ":", "0", "A",
      ":", "0", NumFmt(k)>>
ShortHwMac == <<"0", "0", ":", "0", "0", ":", "0", "0", ":", "0", "0", ":", "0", "1">>
HwMacs == {HwMac(1), ShortHwMac}

\* Line 416 handing over the combined list, as line 387 does.
MacTargetsCombined == all_adjs

\* The list get_inf_mac_by_adj was handed: all_adjs for the root (line 387),
\* node_adjs for a configured node (line 416).
MacTargets == IF snap = 1 THEN all_adjs ELSE node_adjs

\* What a lookup of lines 265 and 271 gives instead of a hardware address
\* when it raises, with the exit status of the handler (lines 279-284).
MgmtErr == <<"SrosMgmtError">>
PathErr == <<"InvalidPathError">>
LookupErrs == {MgmtErr, PathErr}
ExitOf(err) == IF err = MgmtErr THEN 201 ELSE 202

\* Lines 262-284 for the edges node_adj[k..]: hw[k] is what the device
\* reports for the k-th edge's port.  A failed lookup ends the run with its
\* exit status; a refused value is an AssertionError, which nothing catches:
\* the loop ends there.
RECURSIVE MacLoop(_, _, _, _)
MacLoop(lks, node_adj, hw, k) ==
    IF k > Len(node_adj) THEN [links |-> lks, raised |-> FALSE, exit |-> -1]
    ELSE IF hw[k] \in LookupErrs
    THEN [links |-> lks, raised |-> FALSE, exit |-> ExitOf(hw[k])]
    ELSE LET mac == NormaliseMac(hw[k])
         IN  IF InfMacAccepts(mac)
             THEN MacLoop([lks EXCEPT ![node_adj[k]] = SetInfMac(@, mac)],
                          node_adj, hw, k + 1)
             ELSE [links |-> lks, raised |-> TRUE, exit |-> -1]

\* Lines 387 and 416: get_inf_mac_by_adj on the snapshot's links.
GetInfMacByAdj ==
    /\ pc = "mac"
    /\ \E hw \in [1..Len(MacTargets) -> HwMacs \cup LookupErrs] :
          LET r == MacLoop(links, MacTargets, hw, 1)
          IN  /\ links' = r.links
              /\ exit_code' = r.exit
              /\ pc' = IF r.raised THEN "crashed"
                       ELSE IF r.exit # -1 THEN "exit"
                       ELSE "extend"
    /\ UNCHANGED <<adj_martix, all_adjs, node_adjs, node_id, inf,
                   net_gr, snap, cnt>>
    /\ UNCHANGED <<sidVars, drawVars, strVars>>

\* Line 419 for a configured node; the root's list is all_adjs already.
ExtendAllAdjs ==
    /\ pc = "extend"
    /\ all_adjs' = IF snap = 1 THEN all_adjs ELSE all_adjs \o node_adjs
    /\ node_adjs' = <<>>
    /\ pc' = "adjs"
    /\ UNCHANGED <<exit_code, adj_martix, links, node_id, inf, net_gr, snap, cnt>>
    /\ UNCHANGED <<sidVars, drawVars, strVars>>

(***************************************************************************)
(* main(), lines 434-436: the MultiDiGraph.  Its edges iterate source by   *)
(* source in node order, under a source target by target in the order the  *)
(* targets were first linked, and under a target in insertion order.       *)
(***************************************************************************)
RECURSIVE GroupByTarget(_)
GroupByTarget(es) ==
    IF es = <<>> THEN <<>>
    ELSE LET v == Head(es).v2
         IN  SelectSeq(es, LAMBDA e : e.v2 = v)
             \o GroupByTarget(SelectSeq(es, LAMBDA e : e.v2 # v))

RECURSIVE EdgesFromNodes(_, _, _)
EdgesFromNodes(es, u, n) ==
    IF u > n THEN <<>>
    ELSE GroupByTarget(SelectSeq(es, LAMBDA e : e.v1 = u))
         \o EdgesFromNodes(es, u + 1, n)

\* [e.nx_edge for e in all_adjs], as net_gr.edges(data=True) yields them.
NxEdges(ns, lks, adjs) ==
    EdgesFromNodes([k \in 1..Len(adjs) |-> lks[adjs[k]]], 1, Len(ns))

\* Lines 434-436; nx_edge reads inf_mac, an AttributeError while it is unset.
BuildGraph ==
    /\ pc = "adjs"
    /\ snap >= 1
    /\ IF \E k \in 1..Len(all_adjs) : links[all_adjs[k]].inf_mac = Unset
       THEN pc' = "crashed" /\ net_gr' = net_gr
       ELSE pc' = "built" /\ net_gr' = NxEdges(nodes, links, all_adjs)
    /\ UNCHANGED <<exit_code, adj_martix, links, all_adjs, node_adjs, node_id,
                   inf, snap, cnt>>
    /\ UNCHANGED <<sidVars, drawVars, strVars>>

NextAdj ==
    \/ BeginSnapshot
    \/ InfStep
    \/ AdjsReturn
    \/ GetInfMacByAdj
    \/ ExtendAllAdjs
    \/ BuildGraph

SpecAdj == InitAdj /\ [][NextAdj]_vars

(***************************************************************************)
(* Properties of the adjacency matrix and of the skipping policy.          *)
(***************************************************************************)
\* The first-created VEdge from node i to node j, or NoneCell.
FirstLink(lks, i, j) ==
    IF \E u \in 1..Len(lks) : lks[u].v1 = i /\ lks[u].v2 = j
    THEN CHOOSE u \in 1..Len(lks) :
            /\ lks[u].v1 = i /\ lks[u].v2 = j
            /\ \A w \in 1..(u - 1) : ~(lks[w].v1 = i /\ lks[w].v2 = j)
    ELSE NoneCell

\* C1: once cell (i,j) of the adjacency matrix holds a Link, no step of any
\* get_inf_adjs call changes the cell or the Link's adjacency-SID, and a cell
\* that holds a Link holds the first Link discovered from i to j.
C1_MatrixCellFirstWins ==
    [][\A i \in 1..Len(adj_martix) : \A j \in 1..Len(adj_martix[i]) :
          /\ adj_martix[i][j] # NoneCell =>
                /\ adj_martix'[i][j] = adj_martix[i][j]
                /\ links'[adj_martix[i][j]].adj_sid = links[adj_martix[i][j]].adj_sid
          /\ adj_martix'[i][j] # NoneCell =>
                adj_martix'[i][j] = FirstLink(links', i, j)]_vars

\* A second link i -> j with another adjacency-SID has been discovered while
\* the cell holds the first.
C1_Witness ==
    \E i \in 1..Len(adj_martix) : \E j \in 1..Len(adj_martix[i]) :
        /\ adj_martix[i][j] # NoneCell
        /\ \E u \in 1..Len(links) :
              /\ u > adj_martix[i][j]
              /\ links[u].v1 = i /\ links[u].v2 = j
              /\ links[u].adj_sid # links[adj_martix[i][j]].adj_sid

\* The interface record is an up adjacency to a system-id no node carries.
UnknownNeighbour(rec) ==
    /\ rec.has_adj
    /\ rec.oper_state = "up"
    /\ \A k \in 1..Len(nodes) :
          nodes[k].system_id # NormaliseNbrId(rec.system_id)

\* C5: the iteration of get_inf_adjs over an up adjacency whose normalised
\* neighbour system-id matches no node creates no Link, adds nothing to the
\* returned list, leaves every matrix cell as it was, and the loop goes on.
C5_UnknownNeighbourSkipped ==
    [][(pc = "inf" /\ cnt' = cnt + 1 /\ UnknownNeighbour(inf')) =>
          /\ links' = links
          /\ node_adjs' = node_adjs
          /\ adj_martix' = adj_martix
          /\ pc' = "inf"]_vars

\* Such an adjacency has been processed after the snapshot produced a link.
C5_Witness ==
    /\ pc = "inf"
    /\ cnt = 2
    /\ UnknownNeighbour(inf)
    /\ Len(node_adjs) = 1

(***************************************************************************)
(* The normalisation of lines 145-146 on its own: every raw id 0x + n hex  *)
(* digits, n up to MaxDigits, over a two-digit sample of the hex alphabet. *)
(***************************************************************************)
MaxDigits == 12

HexSample == {"0", "f"}

RawIds ==
    UNION {{<<"0", "x">> \o d : d \in [1..n -> HexSample]} : n \in 0..MaxDigits}

adjVars == <<adj_martix, links, all_adjs, node_adjs, node_id, inf, net_gr, snap>>

QuietSid == nodes = <<>> /\ srgb_start = 0 /\ p_sids = <<>> /\ srgb = NoStart
QuietAdj ==
    /\ adj_martix = <<>> /\ links = <<>> /\ all_adjs = <<>> /\ node_adjs = <<>>
    /\ node_id = <<>> /\ inf = NoInterface /\ net_gr = <<>> /\ snap = 0
QuietDraw == draw = Idle /\ f = NoArgs /\ spf = NoSpf

InitNorm ==
    /\ pc = "raw"
    /\ exit_code = -1
    /\ cnt = 0
    /\ str_in \in RawIds
    /\ str_out = <<>>
    /\ QuietSid /\ QuietAdj /\ QuietDraw

\* Lines 145-146 applied to the raw neighbour system-id.
Normalise ==
    /\ pc = "raw"
    /\ str_out' = NormaliseNbrId(str_in)
    /\ pc' = "normalised"
    /\ UNCHANGED <<exit_code, cnt, str_in, sidVars, adjVars, drawVars>>

NextNorm == Normalise

SpecNorm == InitNorm /\ [][NextNorm]_vars

\* C9: the normalised id holds exactly the n hex digits of the raw id, in
\* order, with a '.' after every fourth digit that has a successor: the
\* characters at positions 5, 10, 15, ... and only those are '.', so there
\* is no leading or trailing '.', and 12 digits give dddd.dddd.dddd.
C9_NormalisedForm ==
    pc = "normalised" =>
        LET digits == SubSeq(str_in, 3, Len(str_in))
            n == Len(digits)
        IN  /\ SelectSeq(str_out, LAMBDA c : c # ".") = digits
            /\ Len(str_out) = IF n = 0 THEN 0 ELSE n + ((n - 1) \div 4)
            /\ \A k \in 1..Len(str_out) : (str_out[k] = ".") <=> (k % 5 = 0)
            /\ str_out # <<>> => str_out[1] # "." /\ str_out[Len(str_out)] # "."
            /\ n = 12 => Len(str_out) = 14 /\ str_out[5] = "." /\ str_out[10] = "."

\* A 12-digit id, not all zeros, has been normalised.
C9_Witness ==
    /\ pc = "normalised"
    /\ Len(str_in) = 14
    /\ str_in[3] = "f" /\ str_in[14] = "f"
    /\ Len(str_out) = 14

(***************************************************************************)
(* The inf_mac setter of one VEdge, written directly and through the       *)
(* normalisation of get_inf_mac_by_adj.                                    *)
(***************************************************************************)
MacChars == {"0", "a", "F", "g", ":"}
MacPrefixes == {<<"0", "x">>, <<"0", "X">>, <<"x", "0">>, <<"0", "0">>}

\* Strings handed to the setter: a two-character head, zeros, and two
\* characters of MacChars, of total length MacLen - 1 .. MacLen + 1.
MacValues ==
    {h \o [k \in 1..n |-> "0"] \o <<c1, c2>> :
        h \in MacPrefixes, n \in (MacLen - 5)..(MacLen - 3),
        c1 \in MacChars, c2 \in MacChars}

\* hardware-mac-address values: colon-separated octets, of either case, one
\* octet short, or not hexadecimal.
HwValues ==
    {HwMac(1), HwMac(2), ShortHwMac,
     <<"0", "0", ":", "0", "0", ":", "0", "0", ":", "0", "0", ":", "F",
       "F", ":", "G", "1">>,
     <<"a", "b", ":", "0", "0", ":", "0", "0", ":", "0", "0", ":", "0",
       "0", ":", "0", "1">>}

Stored == <<"stored">>
Raised == <<"AssertionError">>

InitMac ==
    /\ pc = "edge"
    /\ exit_code = -1
    /\ cnt = 0
    /\ nodes = [k \in 1..NumNodes |-> VNode(<<Letter(k)>>, SysId(k))]
    /\ srgb_start = 0 /\ p_sids = <<>> /\ srgb = NoStart
    /\ links = <<VEdge(1, NumNodes, 20000)>>
    /\ adj_martix = <<>> /\ all_adjs = <<>> /\ node_adjs = <<>>
    /\ node_id = <<>> /\ inf = NoInterface /\ net_gr = <<>> /\ snap = 0
    /\ QuietDraw
    /\ str_in = <<>>
    /\ str_out = <<>>

\* e.inf_mac = value: str_in is the value, str_out what the assignment did.
AssignInfMac(value) ==
    /\ str_in' = value
    /\ links' = [links EXCEPT ![1] = SetInfMac(@, value)]
    /\ str_out' = IF InfMacAccepts(value) THEN Stored ELSE Raised

\* graph.py:149-154, the setter called with any string.
SetMacDirect ==
    /\ pc = "edge"
    /\ \E value \in MacValues : AssignInfMac(value)
    /\ UNCHANGED <<pc, exit_code, cnt, sidVars, adj_martix, all_adjs, node_adjs,
                   node_id, inf, net_gr, snap, drawVars>>

\* main.py:273-277, the setter called with a normalised hardware address.
SetMacBackFill ==
    /\ pc = "edge"
    /\ \E hw \in HwValues : AssignInfMac(NormaliseMac(hw))
    /\ UNCHANGED <<pc, exit_code, cnt, sidVars, adj_martix, all_adjs, node_adjs,
                   node_id, inf, net_gr, snap, drawVars>>

NextMac == SetMacDirect \/ SetMacBackFill

SpecMac == InitMac /\ [][NextMac]_vars

LowerHex ==
    {"0", "1", "2", "3", "4", "5", "6", "7", "8", "9", "a", "b", "c", "d", "e", "f"}

\* '0x' followed by 12 lowercase hex digits.
IsLowerHexMac(value) ==
    /\ Len(value) = 14
    /\ value[1] = "0" /\ value[2] = "x"
    /\ \A k \in 3..14 : value[k] \in LowerHex

\* C10 (as claimed): the setter stores a value exactly when it is '0x'
\* followed by 12 lowercase hex digits.
C10_OnlyLowerHexStored ==
    str_out # <<>> => ((str_out = Stored) <=> IsLowerHexMac(str_in))

\* C10 (amended): the setter stores a value exactly when it has length 14
\* and begins with '0x'; any other value raises and leaves the stored MAC
\* as it was.
C10_LengthAndPrefixChecked ==
    [][str_out' # <<>> /\ <<str_in, str_out, links>>' # <<str_in, str_out, links>> =>
          IF Len(str_in') = 14 /\ str_in'[1] = "0" /\ str_in'[2] = "x"
          THEN links'[1].inf_mac = str_in' /\ str_out' = Stored
          ELSE links'[1].inf_mac = links[1].inf_mac /\ str_out' = Raised]_vars

\* A 14-character value beginning with 0x and holding an uppercase and a
\* non-hex character is the stored MAC.
C10_Witness ==
    /\ str_out = Stored
    /\ links[1].inf_mac = str_in
    /\ Len(str_in) = 14
    /\ str_in[13] = "F" /\ str_in[14] = "g"

(***************************************************************************)
(* draw_edges.  edge_labels is the dict of line 171 as the list of its     *)
(* items in key order; visited_adj and visited_pairs are the lists of      *)
(* lines 172-173; texts are the ax.text calls made so far, each with the   *)
(* key of the link whose label it draws.                                   *)
(***************************************************************************)
InList(seq, x) == \E k \in 1..Len(seq) : seq[k] = x

HasKey(tbl, key) == \E k \in 1..Len(tbl) : tbl[k].key = key

Get(tbl, key) == tbl[CHOOSE k \in 1..Len(tbl) : tbl[k].key = key].d

\* tbl[key] = d: a new key goes last, a known key keeps its place.
Put(tbl, key, d) ==
    IF HasKey(tbl, key)
    THEN [k \in 1..Len(tbl) |->
            IF tbl[k].key = key THEN [key |-> key, d |-> d] ELSE tbl[k]]
    ELSE Append(tbl, [key |-> key, d |-> d])

\* Line 171 with the neighbour's address as the third part of the key.
RECURSIVE EdgeLabelsBySnpa(_, _)
EdgeLabelsBySnpa(es, tbl) ==
    IF es = <<>> THEN tbl
    ELSE EdgeLabelsBySnpa(Tail(es),
                          Put(tbl, <<Head(es).v1, Head(es).v2, Head(es).nei_snpa>>,
                              Head(es)))

\* Line 171: {(u, v, d['inf_mac']): d for u, v, d in net_DiGr.edges(data=True)}
RECURSIVE EdgeLabels(_, _)
EdgeLabels(es, tbl) ==
    IF es = <<>> THEN tbl
    ELSE EdgeLabels(Tail(es),
                    Put(tbl, <<Head(es).v1, Head(es).v2, Head(es).inf_mac>>, Head(es)))

\* inf + ' : ' + str(sid), kept as the pair it is built from.
EdgeLbl(d) == <<d.inf_name, d.adj_sid>>

Text(lbl, color, offset, key) ==
    [lbl |-> lbl, color |-> color, offset |-> offset, of |-> key]

\* Lines 176-245 with line 211 left out.
DrawIterNoPairMark(d, key) ==
    LET u == key[1]
        v == key[2]
        snpa == Get(d.edge_labels, key).nei_snpa
        rkey == <<v, u, snpa>>
        u2v_edge_lbl == EdgeLbl(Get(d.edge_labels, key))
    IN  IF InList(d.visited_adj, key) THEN d
        ELSE IF HasKey(d.edge_labels, rkey)
        THEN LET v2u_edge_lbl == EdgeLbl(Get(d.edge_labels, rkey))
             IN  IF InList(d.visited_pairs, <<u, v>>)
                 THEN IF InList(d.visited_pairs, <<v, u>>) THEN d
                      ELSE [d EXCEPT
                              !.texts = @ \o
                                  <<Text(u2v_edge_lbl, "#FF33FF", "0.2", key),
                                    Text(v2u_edge_lbl, "#00CC00", "0.2", rkey)>>]
                 ELSE [d EXCEPT
                         !.texts = @ \o <<Text(u2v_edge_lbl, "b", "0.1", key),
                                          Text(v2u_edge_lbl, "r", "0.1", rkey)>>,
                         !.visited_adj = @ \o <<key, rkey>>,
                         !.visited_pairs = Append(@, <<u, v>>)]
        ELSE [d EXCEPT !.raised = TRUE]

\* Lines 176-245: the body of the loop for one key of edge_labels.  In the
\* branch of a link without reverse link line 239 subscripts the function
\* np.array, a TypeError: nothing is drawn and draw_edges ends there.
DrawIter(d, key) ==
    LET u == key[1]
        v == key[2]
        snpa == Get(d.edge_labels, key).nei_snpa
        rkey == <<v, u, snpa>>
        u2v_edge_lbl == EdgeLbl(Get(d.edge_labels, key))
    IN  IF InList(d.visited_adj, key) THEN d
        ELSE IF HasKey(d.edge_labels, rkey)
        THEN LET v2u_edge_lbl == EdgeLbl(Get(d.edge_labels, rkey))
             IN  IF InList(d.visited_pairs, <<u, v>>)
                 THEN IF InList(d.visited_pairs, <<v, u>>) THEN d
                      ELSE [d EXCEPT
                              !.texts = @ \o
                                  <<Text(u2v_edge_lbl, "#FF33FF", "0.2", key),
                                    Text(v2u_edge_lbl, "#00CC00", "0.2", rkey)>>,
                              !.visited_pairs = Append(@, <<v, u>>)]
                 ELSE [d EXCEPT
                         !.texts = @ \o <<Text(u2v_edge_lbl, "b", "0.1", key),
                                          Text(v2u_edge_lbl, "r", "0.1", rkey)>>,
                         !.visited_adj = @ \o <<key, rkey>>,
                         !.visited_pairs = Append(@, <<u, v>>)]
        ELSE [d EXCEPT !.raised = TRUE]

(***************************************************************************)
(* draw_edges on the graphs main() can build.  The links are listed in the *)
(* order the graph iterates them (any other order of all_adjs builds the   *)
(* same net_gr as one of these).                                           *)
(***************************************************************************)
MaxDrawEdges == 2       \* links of a graph of arbitrary shape
MaxPairs == 3           \* parallel bidirectional pairs between two nodes

\* The i-th link of a run: a VEdge with its fields set (lines 151-153, 277).
MkLink(v1, v2, mac, snpa, i) ==
    [SetInfMac(VEdge(v1, v2, 20000 + i), mac)
        EXCEPT !.inf_name = InfName(i), !.nei_snpa = snpa]

LinkShapes ==
    {sh \in [v1 : 1..NumNodes, v2 : 1..NumNodes, mac : 1..2, snpa : 1..2] :
        sh.v1 # sh.v2}

\* sh may follow the links shs in the order in which a graph iterates its
\* edges: source by source in node order, the links of one source target by
\* target.
CanFollow(shs, sh) ==
    \/ shs = <<>>
    \/ shs[Len(shs)].v1 < sh.v1
    \/ /\ shs[Len(shs)].v1 = sh.v1
       /\ \/ shs[Len(shs)].v2 = sh.v2
          \/ \A i \in 1..Len(shs) : ~(shs[i].v1 = sh.v1 /\ shs[i].v2 = sh.v2)

RECURSIVE ShapeLists(_, _)
ShapeLists(shapes, n) ==
    IF n = 0 THEN {<<>>}
    ELSE {Append(shs, sh) : <<shs, sh>> \in
             {x \in ShapeLists(shapes, n - 1) \X shapes : CanFollow(x[1], x[2])}}

\* Link lists of any shape.
FreeShapeLists == UNION {ShapeLists(LinkShapes, n) : n \in 0..MaxDrawEdges}

LinksOf(shs) ==
    [i \in 1..Len(shs) |-> MkLink(shs[i].v1, shs[i].v2, MacStr(shs[i].mac),
                                  MacStr(shs[i].snpa), i)]

\* k independent complete pairs between the nodes ab[1] and ab[2]: the i-th
\* link ab[1] -> ab[2] leaves the port with MAC p[i] and hears MAC k + p[i];
\* the links ab[2] -> ab[1] mirror them, listed in the order q.
PairLinkLists ==
    UNION {{[i \in 1..(2 * k) |->
                IF i <= k
                THEN MkLink(ab[1], ab[2], MacStr(p[i]), MacStr(k + p[i]), i)
                ELSE MkLink(ab[2], ab[1], MacStr(k + q[i - k]), MacStr(q[i - k]), i)] :
             ab \in {x \in (1..NumNodes) \X (1..NumNodes) : x[1] # x[2]},
             p \in Permutations(1..k), q \in Permutations(1..k)} :
           k \in 1..MaxPairs}

\* One link ab[1] -> ab[2] and n links back that all hear its port: the
\* link itself hears the port of the h-th of them.
FanLinkLists ==
    UNION {{[i \in 1..(n + 1) |->
                IF i = 1
                THEN MkLink(ab[1], ab[2], MacStr(1), MacStr(1 + h), 1)
                ELSE MkLink(ab[2], ab[1], MacStr(i), MacStr(1), i)] :
             ab \in {x \in (1..NumNodes) \X (1..NumNodes) : x[1] # x[2]},
             h \in 1..n} :
           n \in 1..MaxDrawEdges}

\* The adjacency matrix the links leave behind (lines 154-155, in order).
RECURSIVE MatrixOf(_, _, _)
MatrixOf(mtx, lks, u) ==
    IF u > Len(lks) THEN mtx
    ELSE MatrixOf(MatrixPut(mtx, lks[u].v1, lks[u].v2, u), lks, u + 1)

\* The variables of main() at line 437 for the link list lks.
GraphBuilt(lks) ==
    /\ exit_code = -1
    /\ cnt = 0
    /\ nodes = [k \in 1..NumNodes |-> VNode(<<Letter(k)>>, SysId(k))]
    /\ srgb \in {WithStart(v) : v \in SrgbStarts}
    /\ srgb_start = srgb[1]
    /\ p_sids = <<>>
    /\ links = lks
    /\ all_adjs = [i \in 1..Len(lks) |-> i]
    /\ net_gr = NxEdges(nodes, links, all_adjs)
    /\ adj_martix = MatrixOf(NewMatrix(NumNodes), lks, 1)
    /\ node_adjs = <<>>
    /\ node_id = <<>>
    /\ inf = NoInterface
    /\ snap = 1
    /\ draw = Idle
    /\ str_in = <<>>
    /\ str_out = <<>>

\* main() at line 451 of a run without path query and with --graph.
InitDraw ==
    /\ pc = "render"
    /\ \/ \E shs \in FreeShapeLists : GraphBuilt(LinksOf(shs))
       \/ \E lks \in PairLinkLists \cup FanLinkLists : GraphBuilt(lks)
    /\ f = [NoArgs EXCEPT !.graph = TRUE]
    /\ spf = NoSpf

\* Lines 171-173.
DrawBegin ==
    /\ pc = "render"
    /\ f.graph
    /\ draw' = [Idle EXCEPT !.edge_labels = EdgeLabels(net_gr, <<>>)]
    /\ cnt' = 0
    /\ pc' = "draw"
    /\ UNCHANGED <<exit_code, sidVars, adjVars, f, spf, strVars>>

\* Lines 175-245: one iteration of the loop over edge_labels.
DrawStep ==
    /\ pc = "draw"
    /\ cnt < Len(draw.edge_labels)
    /\ draw' = DrawIter(draw, draw.edge_labels[cnt + 1].key)
    /\ IF draw'.raised
       THEN pc' = "crashed" /\ cnt' = cnt
       ELSE pc' = "draw" /\ cnt' = cnt + 1
    /\ UNCHANGED <<exit_code, sidVars, adjVars, f, spf, strVars>>

\* Lines 247-250: the loop is over; the route is highlighted.
DrawReturn ==
    /\ pc = "draw"
    /\ cnt = Len(draw.edge_labels)
    /\ pc' = "drawn"
    /\ UNCHANGED <<exit_code, cnt, draw, sidVars, adjVars, f, spf, strVars>>

NextDraw == DrawBegin \/ DrawStep \/ DrawReturn

SpecDraw == InitDraw /\ [][NextDraw]_vars

(***************************************************************************)
(* main(), lines 438-470: path query, rendering, exit.                     *)
(***************************************************************************)
HasEdge(a, b) == \E i \in 1..Len(net_gr) : net_gr[i].v1 = a /\ net_gr[i].v2 = b

\* The node lists that lead from node s to node t along edges of net_gr.
PathsTo(s, t) ==
    {p \in UNION {[1..n -> 1..Len(nodes)] : n \in 1..Len(nodes)} :
        /\ p[1] = s
        /\ p[Len(p)] = t
        /\ \A i \in 1..(Len(p) - 1) : HasEdge(p[i], p[i + 1])}

\* What nx.shortest_path may return; empty when it raises NetworkXNoPath.
ShortestPaths(s, t) ==
    {p \in PathsTo(s, t) : \A q \in PathsTo(s, t) : Len(p) <= Len(q)}

ResolvedEither(src_idx, dst_idx) == src_idx # -1 \/ dst_idx # -1

\* Line 444.
Resolved(src_idx, dst_idx) == src_idx # -1 /\ dst_idx # -1

\* Names on the command line: each node's name, a node's name in blanks, and
\* a name no node has.
NameInputs ==
    {<<Letter(k)>> : k \in 1..NumNodes}
        \cup {<<" ", Letter(1), " ">>, <<"x">>}
NameArgs == {NoName} \cup {Name(str) : str \in NameInputs}

\* Links whose ports all carry one hardware address.
MainShapes == {sh \in LinkShapes : sh.mac = 1 /\ sh.snpa = 1}

\* main() at line 438.
InitMain ==
    /\ pc = "built"
    /\ \E shs \in UNION {ShapeLists(MainShapes, n) : n \in 0..MaxDrawEdges} :
          GraphBuilt(LinksOf(shs))
    /\ f \in [src : NameArgs, dst : NameArgs, graph : BOOLEAN]
    /\ spf = NoSpf

\* Lines 439-448.  nx.shortest_path raises NetworkXNoPath when the target
\* cannot be reached; nothing catches it.
PathQuery ==
    /\ pc = "built"
    /\ IF f.src # NoName /\ f.dst # NoName
       THEN LET src_idx == name_to_idx(nodes, f.src[1])
                dst_idx == name_to_idx(nodes, f.dst[1])
                paths == ShortestPaths(PyPos(nodes, src_idx), PyPos(nodes, dst_idx))
            IN  IF Resolved(src_idx, dst_idx)
                THEN IF paths = {}
                     THEN /\ spf' = [called |-> TRUE, nodes |-> <<>>]
                          /\ pc' = "crashed"
                     ELSE /\ \E p \in paths : spf' = [called |-> TRUE, nodes |-> p]
                          /\ pc' = "render"
                ELSE spf' = spf /\ pc' = "render"
       ELSE spf' = spf /\ pc' = "render"
    /\ UNCHANGED <<exit_code, cnt, draw, sidVars, adjVars, f, strVars>>

\* Lines 451 and 470: exit(0), after the drawing when --graph is given.
Exit ==
    /\ \/ pc = "render" /\ ~f.graph
       \/ pc = "drawn"
    /\ pc' = "exit"
    /\ exit_code' = 0
    /\ UNCHANGED <<cnt, draw, sidVars, adjVars, f, spf, strVars>>

NextMain == PathQuery \/ DrawBegin \/ DrawStep \/ DrawReturn \/ Exit

SpecMain == InitMain /\ [][NextMain]_vars

\* The path query was asked for with names s and d.
Asked == f.src # NoName /\ f.dst # NoName

\* The name, blanks trimmed, is the name of a node.
Known(arg) == \E k \in 1..Len(nodes) : nodes[k].name = Strip(arg[1])

\* C6: a path query for two known names whose destination cannot be reached
\* from the source yields an empty path, and the run goes on to rendering
\* and normal exit instead of ending with an error.
C6_NoPathIsNotFatal ==
    (/\ Asked /\ Known(f.src) /\ Known(f.dst)
     /\ PathsTo(PyPos(nodes, name_to_idx(nodes, f.src[1])),
                PyPos(nodes, name_to_idx(nodes, f.dst[1]))) = {}
     /\ pc # "built")
    => /\ spf.nodes = <<>>
       /\ pc = "crashed" => draw.raised

\* C7: a path query in which the source or the destination name, blanks
\* trimmed, is no node's name computes no shortest path, leaves the path
\* empty and does not end the run: main() goes on to line 451, ends with
\* exit status 0, and ends otherwise only inside draw_edges.
C7_UnknownNameSkipsPath ==
    (Asked /\ ~(Known(f.src) /\ Known(f.dst)) /\ pc # "built")
    => /\ ~spf.called
       /\ spf.nodes = <<>>
       /\ pc \in {"render", "draw", "drawn", "exit", "crashed"}
       /\ pc = "exit" => exit_code = 0
       /\ pc = "crashed" => draw.raised

\* A run asked for the path from a node named in blanks to an unknown name
\* has drawn its graph and ended with status 0.
C7_Witness ==
    /\ pc = "exit" /\ exit_code = 0
    /\ f.graph /\ Len(draw.texts) > 0
    /\ f = [src |-> Name(<<" ", Letter(1), " ">>), dst |-> Name(<<"x">>),
            graph |-> TRUE]
    /\ ~spf.called

(***************************************************************************)
(* draw_edges: links without a reverse link, and parallel pairs.           *)
(***************************************************************************)
\* The key line 184 looks up for the link under key.
ReverseKey(tbl, key) == <<key[2], key[1], Get(tbl, key).nei_snpa>>

\* The ax.text calls made for the link under key.
TextsOf(key) == SelectSeq(draw.texts, LAMBDA t : t.of = key)

\* The keys of edge_labels the loop has taken up: the cnt it has finished
\* and, after a raise, the one it stood at.
TakenUp ==
    {draw.edge_labels[i].key :
        i \in 1..(IF pc = "crashed" THEN cnt + 1 ELSE cnt)}

\* C3: for every link u -> v without a matching reverse link the loop of
\* draw_edges completes normally, draws exactly one label for it, the forward
\* label, and marks the link visited before it goes on.
C3_UnidirectionalLinkLabelled ==
    pc \in {"draw", "drawn", "crashed"} =>
        \A key \in TakenUp :
            (/\ ~HasKey(draw.edge_labels, ReverseKey(draw.edge_labels, key))
             /\ \A t \in 1..Len(draw.texts) : draw.texts[t].color = "r" =>
                    draw.texts[t].of # key)
            => /\ ~draw.raised
               /\ pc # "crashed"
               /\ Len(TextsOf(key)) = 1
               /\ TextsOf(key)[1].lbl = EdgeLbl(Get(draw.edge_labels, key))
               /\ InList(draw.visited_adj, key)

\* The link ids from node a to node b.
Between(a, b) == {i \in 1..Len(links) : links[i].v1 = a /\ links[i].v2 = b}

\* Link j is the matching reverse link of link i.
Mates(i, j) ==
    /\ links[i].v1 = links[j].v2
    /\ links[i].v2 = links[j].v1
    /\ links[i].nei_snpa = links[j].inf_mac
    /\ links[j].nei_snpa = links[i].inf_mac

\* The links are k independent complete pairs between the nodes a and b.
IsPairs(k, a, b) ==
    /\ Len(links) = 2 * k
    /\ Cardinality(Between(a, b)) = k
    /\ Cardinality(Between(b, a)) = k
    /\ \A i, j \in Between(a, b) : i # j => links[i].inf_mac # links[j].inf_mac
    /\ \A i, j \in Between(b, a) : i # j => links[i].inf_mac # links[j].inf_mac
    /\ \A i \in Between(a, b) : \E j \in Between(b, a) : Mates(i, j)

LinkKey(i) == <<links[i].v1, links[i].v2, links[i].inf_mac>>

\* The texts t and t + 1 are one render unit: the forward label of a link
\* and the reverse label of its mate, in the colours and at the offset given.
IsUnit(t, fwd, rev, offset) ==
    \E i, j \in 1..Len(links) :
        /\ Mates(i, j)
        /\ draw.texts[t] = Text(EdgeLbl(links[i]), fwd, offset, LinkKey(i))
        /\ draw.texts[t + 1] = Text(EdgeLbl(links[j]), rev, offset, LinkKey(j))

\* C4: k independent complete pairs between two nodes are drawn without
\* error as one unit of two labels at the normal offset when k = 1, and as
\* that unit followed by one unit at the wide offset, for another pair, when
\* k >= 2; every further pair draws nothing.
C4_ParallelPairs ==
    \A k \in 1..(Len(links) \div 2) : \A a, b \in 1..NumNodes :
        IsPairs(k, a, b) =>
            /\ pc # "crashed"
            /\ ~draw.raised
            /\ pc = "drawn" =>
                  /\ Len(draw.texts) = IF k = 1 THEN 2 ELSE 4
                  /\ IsUnit(1, "b", "r", "0.1")
                  /\ k >= 2 =>
                        /\ IsUnit(3, "#FF33FF", "#00CC00", "0.2")
                        /\ draw.texts[3].of # draw.texts[1].of
                        /\ draw.texts[3].of # draw.texts[2].of

\* Three pairs between two nodes have been drawn: two units, one pair dropped.
C4_Witness ==
    /\ pc = "drawn"
    /\ \E a, b \in 1..NumNodes : IsPairs(3, a, b)
    /\ Len(draw.texts) = 4

(***************************************************************************)
(* get_inf_adjs: the direction of the links a snapshot emits.              *)
(***************************************************************************)
\* The snapshot's oper-system-id is the system-id of a node of the list.
OwnNodeKnown == \E k \in 1..Len(nodes) : nodes[k].system_id = node_id

\* The link ids the matrix holds.
MatrixCells ==
    {adj_martix[i][j] : i \in 1..Len(adj_martix), j \in 1..Len(adj_martix)}
        \ {NoneCell}

\* C11: every Link get_inf_adjs emits for a snapshot leads from the node
\* whose system-id is the snapshot's oper-system-id to the node whose
\* system-id is the normalised neighbour system-id; a snapshot whose own
\* system-id no node carries emits no Link and writes no matrix cell.
C11_LinksLeaveOwnNode ==
    pc = "inf" =>
        /\ \A k \in 1..Len(node_adjs) :
              nodes[links[node_adjs[k]].v1].system_id = node_id
        /\ (inf.has_adj /\ inf.oper_state = "up" /\ ~UnknownNeighbour(inf)) =>
              /\ node_adjs # <<>>
              /\ nodes[links[node_adjs[Len(node_adjs)]].v2].system_id
                    = NormaliseNbrId(inf.system_id)
        /\ ~OwnNodeKnown =>
              /\ node_adjs = <<>>
              /\ \A u \in MatrixCells : InList(all_adjs, u)

(***************************************************************************)
(* draw_edges: the index of the links, line 171.                           *)
(***************************************************************************)
\* draw_edges has built its index.
Indexed == pc \in {"draw", "drawn", "crashed"} /\ draw.edge_labels # <<>>

\* The edges i and j of the graph run between the same nodes the same way.
Parallel(i, j) ==
    /\ i # j
    /\ net_gr[i].v1 = net_gr[j].v1
    /\ net_gr[i].v2 = net_gr[j].v2

\* The index holds the edge d of the graph under key.
Holds(key, d) == HasKey(draw.edge_labels, key) /\ Get(draw.edge_labels, key) = d

\* C12 (as claimed): every link is indexed under (source, target, its
\* neighbour announcement address), and two links with the same source and
\* target but different neighbour addresses have an entry each.
C12_IndexedByNeighbourAddress ==
    Indexed =>
        /\ \A k \in 1..Len(draw.edge_labels) :
              draw.edge_labels[k].key[3] = draw.edge_labels[k].d.nei_snpa
        /\ \A i, j \in 1..Len(net_gr) :
              (Parallel(i, j) /\ net_gr[i].nei_snpa # net_gr[j].nei_snpa) =>
                  \E k, m \in 1..Len(draw.edge_labels) :
                      /\ k # m
                      /\ draw.edge_labels[k].d = net_gr[i]
                      /\ draw.edge_labels[m].d = net_gr[j]

\* C12 (amended): every link is indexed under (source, target, its own
\* interface hardware address); two links with the same source and target
\* and different hardware addresses have an entry each, neither replacing
\* the other; links that agree in all three share one entry, which holds the
\* last of them; the loop that finishes has taken up every entry.
C12_IndexedByOwnAddress ==
    Indexed =>
        /\ \A k \in 1..Len(draw.edge_labels) :
              /\ draw.edge_labels[k].key =
                    <<draw.edge_labels[k].d.v1, draw.edge_labels[k].d.v2,
                      draw.edge_labels[k].d.inf_mac>>
              /\ \A m \in 1..Len(draw.edge_labels) :
                    draw.edge_labels[m].key = draw.edge_labels[k].key => m = k
        /\ \A i \in 1..Len(net_gr) :
              HasKey(draw.edge_labels,
                     <<net_gr[i].v1, net_gr[i].v2, net_gr[i].inf_mac>>)
        /\ \A i, j \in 1..Len(net_gr) :
              Parallel(i, j) =>
                  IF net_gr[i].inf_mac # net_gr[j].inf_mac
                  THEN /\ Holds(<<net_gr[i].v1, net_gr[i].v2, net_gr[i].inf_mac>>,
                                net_gr[i])
                          \/ \E m \in (i + 1)..Len(net_gr) :
                                Parallel(i, m) /\ net_gr[m].inf_mac = net_gr[i].inf_mac
                       /\ ~Holds(<<net_gr[i].v1, net_gr[i].v2, net_gr[i].inf_mac>>,
                                 net_gr[j])
                  ELSE i < j =>
                          ~Holds(<<net_gr[i].v1, net_gr[i].v2, net_gr[i].inf_mac>>,
                                 net_gr[i])
        /\ pc = "drawn" => cnt = Len(draw.edge_labels)

\* The loop has finished on a graph with two links between the same nodes
\* that differ in hardware address and in neighbour address: an entry each.
C12_Witness ==
    /\ pc = "drawn"
    /\ \E i, j \in 1..Len(net_gr) :
          /\ Parallel(i, j)
          /\ net_gr[i].inf_mac # net_gr[j].inf_mac
          /\ net_gr[i].nei_snpa # net_gr[j].nei_snpa
          /\ Holds(<<net_gr[i].v1, net_gr[i].v2, net_gr[i].inf_mac>>, net_gr[i])
          /\ Holds(<<net_gr[j].v1, net_gr[j].v2, net_gr[j].inf_mac>>, net_gr[j])
    /\ cnt = Len(net_gr)

(***************************************************************************)
(* draw_edges: the labels drawn for one link.                              *)
(***************************************************************************)
\* C13: when draw_edges has finished, every link is in at most one render
\* unit: its label has been drawn once at most, never as the forward label
\* of one unit and again as the reverse label of another.
C13_LinkInOneUnit ==
    pc = "drawn" =>
        \A t, w \in 1..Len(draw.texts) :
            draw.texts[t].of = draw.texts[w].of => t = w

(***************************************************************************)
(* main(): the MAC of a link and the moments the link is passed on.        *)
(***************************************************************************)
\* Every link of the list has had its MAC assigned.
MacsSet(lks, adjs) == \A k \in 1..Len(adjs) : lks[adjs[k]].inf_mac # Unset

\* C14 (as claimed): the combined collection never holds a Link whose MAC is
\* unset, for the root snapshot as for every configured node, and the graph
\* is built from Links with their MACs assigned.
C14_NoUnsetMacCollected ==
    /\ MacsSet(links, all_adjs)
    /\ pc = "built" => Len(net_gr) = Len(all_adjs)

\* C14 (amended): the root snapshot's Links are the combined collection from
\* line 384 on, their MACs unset until line 387; a configured node's Links
\* are appended only with their MACs assigned; get_inf_mac_by_adj assigns
\* the MAC of the Links of the snapshot it is called for, once, and of no
\* other Link; graph construction never reads an unset MAC.
C14_MacBeforeGraph ==
    [][/\ (snap > 1 /\ all_adjs' # all_adjs) => MacsSet(links', all_adjs')
       /\ (pc = "inf" /\ pc' = "mac" /\ snap = 1) => all_adjs' = node_adjs
       /\ \A u \in 1..Len(links) :
             links'[u].inf_mac # links[u].inf_mac =>
                 /\ pc = "mac"
                 /\ links[u].inf_mac = Unset
                 /\ InList(node_adjs, u)
       /\ (pc = "mac" /\ pc' = "extend") => MacsSet(links', node_adjs)
       /\ pc = "adjs" => pc' # "crashed"
       /\ pc' = "built" =>
             /\ MacsSet(links', all_adjs')
             /\ Len(net_gr') = Len(all_adjs')]_vars

\* The graph is built from the root's link and a configured node's link.
C14_Witness ==
    /\ pc = "built"
    /\ snap = 2
    /\ Len(all_adjs) = 2
    /\ Len(net_gr) = 2
    /\ links[all_adjs[1]].v1 # links[all_adjs[2]].v1
    /\ MacsSet(links, all_adjs)

====
